---- MODULE Spec2Model ----
(***************************************************************************)
(* The COI visualization plugin of src/components/Charts/CutEdgesSection.js *)
(* as a state machine: the checkbox hierarchy in the DOM, the per-unit and  *)
(* layer-wide opacity of the units layer, the reverse mappings held by the  *)
(* tooltip watcher and by the click handler, and the outcome of the last    *)
(* event handler that ran.                                                  *)
(*                                                                          *)
(* A JavaScript string is a sequence of chunks (<<"b", " ", "c">> is        *)
(* "b c"); a JavaScript object is the sequence of its entries <<key,        *)
(* value>> in insertion order, as Object.entries lists them.                *)
(***************************************************************************)
EXTENDS Integers, Sequences, FiniteSets, TLC

\* Unit ids 1..MaxUnit may be listed under COIs; unit MaxUnit + 1 is a unit of
\* the layer that no COI lists.
MaxUnit == 1

CoiUnits == 1..MaxUnit
LayerUnits == 1..(MaxUnit + 1)

\* The plans addCOIs may load, in the order it inserts them: the identifier of
\* each cluster and the names of the COIs it may hold.
Plans ==
    << [id |-> <<"A">>, parts |-> << <<"a">>, <<"b", " ", "c">> >>],
       [id |-> <<"B">>, parts |-> << <<"a">> >>] >>

Range(s) == {s[i] : i \in DOMAIN s}

RECURSIVE Flatten(_)
Flatten(ss) == IF ss = <<>> THEN <<>> ELSE Head(ss) \o Flatten(Tail(ss))

\* ---------------------------------------------------------------- values

\* undefined / null / the unset inline style
Undefined == <<>>
Zero == <<0, 1>>
Third == <<1, 3>>
Half == <<1, 2>>
One == <<1, 1>>

\* ---------------------------------------------------------------- objects

Keys(obj) == {obj[i][1] : i \in DOMAIN obj}
Get(obj, key) == obj[CHOOSE i \in DOMAIN obj : obj[i][1] = key][2]

\* The entries of the object that holds f[k] under each key k of f, keys
\* inserted in the order of keyOrder.
RECURSIVE Entries(_, _)
Entries(keyOrder, f) ==
    IF keyOrder = <<>> THEN <<>>
    ELSE (IF Head(keyOrder) \in DOMAIN f
          THEN << <<Head(keyOrder), f[Head(keyOrder)]>> >> ELSE <<>>)
         \o Entries(Tail(keyOrder), f)

SortedSeq(S) ==
    CHOOSE s \in [1..Cardinality(S) -> S] : \A i, j \in 1..Cardinality(S) : i < j => s[i] < s[j]

\* The unit lists a COI may hold: at least one unit, each unit once.
GeoidLists == {SortedSeq(S) : S \in (SUBSET CoiUnits) \ {{}}}

\* The cluster objects of a plan: at least one of its COIs, each with a list.
ClusterObjects(plan) ==
    {Entries(plan.parts, f) :
        f \in UNION {[K -> GeoidLists] : K \in (SUBSET Range(plan.parts)) \ {{}}}}

\* The unitMaps: any of the plans (there may be none), each with a cluster object.
UnitMaps ==
    LET ids == [i \in DOMAIN Plans |-> Plans[i].id]
        plan(id) == Plans[CHOOSE i \in DOMAIN Plans : Plans[i].id = id]
    IN  {Entries(ids, f) :
            f \in UNION {{g \in [K -> UNION {ClusterObjects(Plans[i]) : i \in DOMAIN Plans}] :
                              \A id \in K : g[id] \in ClusterObjects(plan(id))} :
                         K \in SUBSET Range(ids)}}

\* The clusters addCOIs hands over with the unitMap: one per key of the
\* unitMap, its parts the COIs the unitMap lists for it.
Clusters(um) ==
    [i \in DOMAIN um |->
        [id |-> um[i][1], parts |-> [j \in DOMAIN um[i][2] |-> um[i][2][j][1]]]]

\* ---------------------------------------------------------------- strings

\* name.replaceAll(" ", "-")
replaceAll(s) == [i \in DOMAIN s |-> IF s[i] = " " THEN "-" ELSE s[i]]

\* The whitespace-separated tokens of a string.
RECURSIVE Split(_, _)
Split(s, cur) ==
    IF s = <<>> THEN (IF cur = <<>> THEN <<>> ELSE <<cur>>)
    ELSE IF Head(s) = " "
         THEN (IF cur = <<>> THEN <<>> ELSE <<cur>>) \o Split(Tail(s), <<>>)
         ELSE Split(Tail(s), Append(cur, Head(s)))

\* A DOMTokenList: the tokens of the class attribute, each once.
RECURSIVE TokenList(_, _)
TokenList(tokens, seen) ==
    IF tokens = <<>> THEN seen
    ELSE TokenList(Tail(tokens),
                   IF Head(tokens) \in Range(seen) THEN seen ELSE Append(seen, Head(tokens)))

\* ---------------------------------------------------------------- reverse mapping

Put(obj, key, value) ==
    [k \in (DOMAIN obj) \cup {key} |-> IF k = key THEN value ELSE obj[k]]

\* The body of the innermost loop, for one geoid.
AddGeoid(reverseMapping, clusterIdentifier, coiid, geoid) ==
    LET cois == IF geoid \in DOMAIN reverseMapping
                THEN reverseMapping[geoid].coi \o <<coiid>>
                ELSE <<coiid>>
    IN  Put(reverseMapping, geoid, [cluster |-> clusterIdentifier, coi |-> cois])

RECURSIVE ForGeoids(_, _, _, _)
ForGeoids(reverseMapping, clusterIdentifier, coiid, geoids) ==
    IF geoids = <<>> THEN reverseMapping
    ELSE ForGeoids(AddGeoid(reverseMapping, clusterIdentifier, coiid, Head(geoids)),
                   clusterIdentifier, coiid, Tail(geoids))

RECURSIVE ForCois(_, _, _)
ForCois(reverseMapping, clusterIdentifier, cluster) ==
    IF cluster = <<>> THEN reverseMapping
    ELSE ForCois(ForGeoids(reverseMapping, clusterIdentifier,
                           Head(cluster)[1], Head(cluster)[2]),
                 clusterIdentifier, Tail(cluster))

RECURSIVE ForClusters(_, _)
ForClusters(reverseMapping, um) ==
    IF um = <<>> THEN reverseMapping
    ELSE ForClusters(ForCois(reverseMapping, Head(um)[1], Head(um)[2]), Tail(um))

createReverseMapping(um) == ForClusters(<<>>, um)

\* ---------------------------------------------------------------- the DOM

NoHandler == [fn |-> "none", cluster |-> Undefined, name |-> Undefined]

\* toggle(label, checked, onChange, id, classes) of components/Toggle: a
\* label element that carries the toggle's own class and the given classes,
\* around a checkbox input whose change event calls onChange(checked).
Toggle(checked, onChange, classes) ==
    [localName |-> "label",
     classList |-> TokenList(Split(<<"toolbar-checkbox", " ">> \o classes, <<>>), <<>>),
     checked |-> checked, pointerEvents |-> "", opacity |-> Undefined,
     onChange |-> onChange]

Paragraph(classes) ==
    [localName |-> "p", classList |-> TokenList(Split(classes, <<>>), <<>>),
     checked |-> FALSE, pointerEvents |-> "", opacity |-> Undefined,
     onChange |-> NoHandler]

\* The elements createCOICheckbox renders.
createCOICheckbox ==
    << Toggle(FALSE, [fn |-> "displayCOIs", cluster |-> Undefined, name |-> Undefined],
              <<"allvisible-checkbox">>) >>

\* The elements listCOIs renders for one COI of a cluster: its toggle, then
\* the paragraph with its description.
listCOI(id, name) ==
    << Toggle(TRUE, [fn |-> "toggleIndividualCOI", cluster |-> id, name |-> name],
              <<"coi-checkbox", " ">> \o id \o <<" ">> \o replaceAll(name)),
       Paragraph(id \o <<" ">> \o name) >>

listCOIs(cluster) ==
    Flatten([j \in DOMAIN cluster.parts |-> listCOI(cluster.id, cluster.parts[j])])

\* The section CoiVisualizationPlugin adds for one cluster.
clusterSection(cluster) ==
    << Toggle(TRUE, [fn |-> "toggleCluster", cluster |-> cluster.id, name |-> Undefined],
              <<"cluster-checkbox", " ">> \o cluster.id) >>
    \o listCOIs(cluster)

\* The document after editor.render(), in document order.
Render(clusters) ==
    createCOICheckbox \o Flatten([i \in DOMAIN clusters |-> clusterSection(clusters[i])])

\* document.getElementsByClassName(names): the elements (by position) that
\* carry every class of names, in document order.
getElementsByClassName(d, names) ==
    LET tokens == Split(names, <<>>)
    IN  SelectSeq([i \in DOMAIN d |-> i],
                  LAMBDA i : tokens # <<>> /\ Range(tokens) \subseteq Range(d[i].classList))

retrieveCheckboxes(d, cluster) ==
    LET checkboxes ==
            getElementsByClassName(d, <<"allvisible-checkbox">>)
            \o (IF cluster # Undefined
                THEN getElementsByClassName(d, cluster)
                ELSE getElementsByClassName(d, <<"cluster-checkbox">>)
                     \o getElementsByClassName(d, <<"coi-checkbox">>))
    IN  SelectSeq(checkboxes, LAMBDA c : d[c].localName = "label")

\* cois is <<>> for a missing argument and <<array>> for a given array.
getCheckboxStatuses(d, cluster, cois) ==
    LET checkboxes == retrieveCheckboxes(d, cluster)
        coiClasses == IF cois # <<>>
                      THEN <<[i \in DOMAIN cois[1] |-> replaceAll(cois[1][i])]>>
                      ELSE <<>>
        coi(c) == IF Len(d[c].classList) > 3 THEN d[c].classList[4] ELSE Undefined
        skipCondition(c) ==
            LET hasEnoughClasses == Len(d[c].classList) > 3
                included == IF coiClasses # <<>> THEN coi(c) \in Range(coiClasses[1])
                            ELSE FALSE
            IN  hasEnoughClasses /\ ~included
        kept == SelectSeq(checkboxes, LAMBDA c : ~skipCondition(c))
    IN  [i \in DOMAIN kept |->
            [cluster |-> cluster, coi |-> coi(kept[i]), checked |-> d[kept[i]].checked]]

checkIfAllVisible(d, cluster, cois) ==
    LET statuses == getCheckboxStatuses(d, cluster, <<cois>>)
    IN  \A i \in DOMAIN statuses : statuses[i].checked

slice1(s) == IF s = <<>> THEN <<>> ELSE Tail(s)

\* initialStyles without the slice(1): the top-level checkbox is styled too.
initialStylesAll(d) ==
    LET allCheckboxes == retrieveCheckboxes(d, Undefined)
    IN  [i \in DOMAIN d |->
            IF i \in Range(allCheckboxes)
            THEN [d[i] EXCEPT !.pointerEvents = "none", !.opacity = Half]
            ELSE d[i]]

\* The document after initialStyles().
initialStyles(d) ==
    LET allCheckboxes == slice1(retrieveCheckboxes(d, Undefined))
    IN  [i \in DOMAIN d |->
            IF i \in Range(allCheckboxes)
            THEN [d[i] EXCEPT !.pointerEvents = "none", !.opacity = Half]
            ELSE d[i]]

\* The document after the callback of displayCOIs ran with checked.
displayCOIsStyles(d, checked) ==
    LET checkboxes == slice1(retrieveCheckboxes(d, Undefined))
    IN  [i \in DOMAIN d |->
            IF i \in Range(checkboxes)
            THEN [d[i] EXCEPT !.pointerEvents = IF checked THEN "auto" ELSE "none",
                              !.opacity = IF checked THEN One ELSE Half]
            ELSE d[i]]

\* The layer opacity after the callback of displayCOIs ran with checked:
\* units.setOpacity is called once per checkbox of the loop.
displayCOIsOpacity(d, opacity, checked) ==
    LET checkboxes == slice1(retrieveCheckboxes(d, Undefined))
    IN  IF checkboxes = <<>> THEN opacity
        ELSE IF checked THEN Third ELSE Zero

\* ---------------------------------------------------------------- the units layer

\* opacityStyleExpression(units, geoids, checked) of layers/COI: the listed
\* units become visible when checked and transparent when not.
opacityStyleExpression(visible, geoids, checked) ==
    [g \in DOMAIN visible |-> IF g \in Range(geoids) THEN checked ELSE visible[g]]

\* toggleIndividualCOI that takes the units of every COI of the cluster.
toggleIndividualCOIWholeCluster(um, cluster, name) ==
    Flatten([i \in DOMAIN Get(um, cluster) |-> Get(um, cluster)[i][2]])

\* The geoids the callback of toggleIndividualCOI(cluster, name, units,
\* unitMap) passes to opacityStyleExpression.
toggleIndividualCOI(um, cluster, name) == Get(Get(um, cluster), name)

\* ---------------------------------------------------------------- map events

\* A rendered feature: the layer it comes from and its GEOID20 property.
Feature(source, geoid) == [source |-> source, GEOID20 |-> geoid]

\* What the tooltip watcher may be handed: no feature, or a unit of the layer.
HoverFeatures == {<<>>} \cup {<<Feature("units", g)>> : g \in LayerUnits}
\* What queryRenderedFeatures may return at a clicked point: nothing, a unit
\* of the units layer, or a feature of another layer on top.
ClickFeatures == HoverFeatures \cup {<<Feature("other", g)>> : g \in CoiUnits}

\* The function watchTooltips returns, applied to features: shown is FALSE
\* for null, and items are the COI names of the tooltip's rows.
tooltipCallback(reverseMapping, d, features) ==
    IF Len(features) = 0 THEN [shown |-> FALSE, items |-> <<>>]
    ELSE LET geoid == features[1].GEOID20
         IN  IF geoid \in DOMAIN reverseMapping
             THEN LET cluster == reverseMapping[geoid].cluster
                      cois == reverseMapping[geoid].coi
                      isChecked == checkIfAllVisible(d, cluster, cois)
                  IN  IF isChecked
                      THEN [shown |-> TRUE, items |-> reverseMapping[geoid].coi]
                      ELSE [shown |-> FALSE, items |-> <<>>]
             ELSE [shown |-> FALSE, items |-> <<>>]

\* The click handler onFeatureClicked installs, applied to the features at
\* the clicked point: err is TRUE when it throws a TypeError.
clickHandler(reverseMapping, d, features) ==
    LET selectedFeatures ==
            [i \in DOMAIN features |->
                IF features[i].source = "units" THEN <<features[i]>> ELSE Undefined]
        feature == IF selectedFeatures = <<>> THEN Undefined ELSE selectedFeatures[1]
    IN  IF feature = Undefined THEN [err |-> TRUE, opened |-> FALSE]
        ELSE LET geoid == feature[1].GEOID20
             IN  IF geoid \notin DOMAIN reverseMapping
                 THEN [err |-> TRUE, opened |-> FALSE]
                 ELSE [err |-> FALSE,
                       opened |-> checkIfAllVisible(d, reverseMapping[geoid].cluster,
                                                    reverseMapping[geoid].coi)]

\* ---------------------------------------------------------------- state

VARIABLES
    pc,              \* "start" until the promise of addCOIs resolves, then "ready"
    unitMap,         \* the unitMap addCOIs resolves with
    dom,             \* the elements of the tab, in document order
    unitVisible,     \* per unit: whether the style expression shows it
    layerOpacity,    \* the opacity of the units layer
    tooltipMapping,  \* reverseMapping in the closure of watchTooltips
    clickMapping,    \* reverseMapping in the closure of onFeatureClicked
    builds,          \* how often createReverseMapping has run
    last             \* the handler that ran last and what it did

vars == <<pc, unitMap, dom, unitVisible, layerOpacity, tooltipMapping, clickMapping,
          builds, last>>

Ran(op) ==
    [op |-> op, k |-> 0, checked |-> FALSE, err |-> FALSE, requests |-> <<>>,
     features |-> <<>>, shown |-> FALSE, items |-> <<>>, opened |-> FALSE]

\* Before the promise of addCOIs resolves the tab holds nothing. The layer
\* addCOIs adds starts hidden (the top-level toggle it belongs to starts
\* unchecked) and no style expression masks any unit yet.
Init ==
    /\ pc = "start"
    /\ unitMap \in UnitMaps
    /\ dom = <<>>
    /\ unitVisible = [g \in LayerUnits |-> TRUE]
    /\ layerOpacity = Zero
    /\ tooltipMapping = <<>>
    /\ clickMapping = <<>>
    /\ builds = 0
    /\ last = Ran("none")

\* How many times watchTooltips(unitMap) and onFeatureClicked(units, unitMap)
\* each build the reverse mapping.
watchTooltipsBuilds == LET reverseMapping == createReverseMapping(unitMap) IN 1
onFeatureClickedBuilds == LET reverseMapping == createReverseMapping(unitMap) IN 1
\* An event handler that builds the reverse mapping again on every event.
eventBuildsRebuild == LET reverseMapping == createReverseMapping(unitMap) IN 1
\* How many times one run of the tooltip callback or of the click handler does.
eventBuilds == 0

\* The callback of addCOIs(state).then in CoiVisualizationPlugin.
CoiVisualizationPlugin ==
    /\ pc = "start"
    /\ pc' = "ready"
    /\ tooltipMapping' = createReverseMapping(unitMap)
    /\ dom' = initialStyles(Render(Clusters(unitMap)))
    /\ clickMapping' = createReverseMapping(unitMap)
    /\ builds' = builds + watchTooltipsBuilds + onFeatureClickedBuilds
    /\ last' = Ran("CoiVisualizationPlugin")
    /\ UNCHANGED <<unitMap, unitVisible, layerOpacity>>

\* The user can click the checkbox of element k.
Clickable(k, fn) ==
    /\ pc = "ready"
    /\ k \in DOMAIN dom
    /\ dom[k].localName = "label"
    /\ dom[k].onChange.fn = fn
    /\ dom[k].pointerEvents # "none"

\* A click on the top-level toggle: the checkbox flips, then the callback of
\* displayCOIs runs.
ClickDisplayCOIs(k) ==
    /\ Clickable(k, "displayCOIs")
    /\ LET checked == ~dom[k].checked
           flipped == [dom EXCEPT ![k].checked = checked]
       IN  /\ dom' = displayCOIsStyles(flipped, checked)
           /\ layerOpacity' = displayCOIsOpacity(flipped, layerOpacity, checked)
           /\ last' = [Ran("displayCOIs") EXCEPT !.k = k, !.checked = checked]
    /\ UNCHANGED <<pc, unitMap, unitVisible, tooltipMapping, clickMapping, builds>>

\* A click on a cluster's toggle: the checkbox flips, then the callback of
\* toggleCluster runs; it reads the statuses and throws a ReferenceError at
\* the undeclared geoids before it requests any opacity.
ClickCluster(k) ==
    /\ Clickable(k, "toggleCluster")
    /\ LET checked == ~dom[k].checked
       IN  /\ dom' = [dom EXCEPT ![k].checked = checked]
           /\ last' = [Ran("toggleCluster") EXCEPT !.k = k, !.checked = checked,
                                                   !.err = TRUE]
    /\ UNCHANGED <<pc, unitMap, unitVisible, layerOpacity, tooltipMapping, clickMapping,
                   builds>>

\* A click on a COI's toggle: the checkbox flips, then the callback of
\* toggleIndividualCOI runs.
ClickCOI(k) ==
    /\ Clickable(k, "toggleIndividualCOI")
    /\ LET checked == ~dom[k].checked
           geoids == toggleIndividualCOI(unitMap, dom[k].onChange.cluster,
                                         dom[k].onChange.name)
       IN  /\ dom' = [dom EXCEPT ![k].checked = checked]
           /\ unitVisible' = opacityStyleExpression(unitVisible, geoids, checked)
           /\ last' = [Ran("toggleIndividualCOI") EXCEPT
                          !.k = k, !.checked = checked,
                          !.requests = << <<geoids, checked>> >>]
    /\ UNCHANGED <<pc, unitMap, layerOpacity, tooltipMapping, clickMapping, builds>>

\* The pointer moves over features of the units layer.
Hover(features) ==
    /\ pc = "ready"
    /\ LET tip == tooltipCallback(tooltipMapping, dom, features)
       IN  last' = [Ran("tooltip") EXCEPT !.features = features, !.shown = tip.shown,
                                          !.items = tip.items]
    /\ builds' = builds + eventBuilds
    /\ UNCHANGED <<pc, unitMap, dom, unitVisible, layerOpacity, tooltipMapping,
                   clickMapping>>

\* A click on the map.
ClickMap(features) ==
    /\ pc = "ready"
    /\ LET r == clickHandler(clickMapping, dom, features)
       IN  last' = [Ran("click") EXCEPT !.features = features, !.err = r.err,
                                        !.opened = r.opened]
    /\ builds' = builds + eventBuilds
    /\ UNCHANGED <<pc, unitMap, dom, unitVisible, layerOpacity, tooltipMapping,
                   clickMapping>>

Next ==
    \/ CoiVisualizationPlugin
    \/ \E k \in DOMAIN dom : ClickDisplayCOIs(k)
    \/ \E k \in DOMAIN dom : ClickCluster(k)
    \/ \E k \in DOMAIN dom : ClickCOI(k)
    \/ \E features \in HoverFeatures : Hover(features)
    \/ \E features \in ClickFeatures : ClickMap(features)

Spec == Init /\ [][Next]_vars

\* Plugin initialisation, switching the top-level toggle on, and clicks on
\* individual COI checkboxes only, the pointer moving over the map in between.
SwitchOn(k) == ~dom[k].checked /\ ClickDisplayCOIs(k)

NextCoiClicks ==
    \/ CoiVisualizationPlugin
    \/ \E k \in DOMAIN dom : SwitchOn(k)
    \/ \E k \in DOMAIN dom : ClickCOI(k)
    \/ \E features \in HoverFeatures : Hover(features)

SpecCoiClicks == Init /\ [][NextCoiClicks]_vars

\* ---------------------------------------------------------------- vocabulary of the properties

\* Unit g is listed under COI coi of cluster cluster.
Member(g, cluster, coi) ==
    /\ cluster \in Keys(unitMap)
    /\ coi \in Keys(Get(unitMap, cluster))
    /\ g \in Range(Get(Get(unitMap, cluster), coi))

ClusterIds == {Plans[i].id : i \in DOMAIN Plans}
CoiNames == UNION {Range(Plans[i].parts) : i \in DOMAIN Plans}
Memberships(g) == {m \in ClusterIds \X CoiNames : Member(g, m[1], m[2])}

\* The checkboxes, found by the callback they were created with.
TopChecked == \A k \in DOMAIN dom : dom[k].onChange.fn = "displayCOIs" => dom[k].checked
ClusterChecked(cluster) ==
    \A k \in DOMAIN dom :
        dom[k].onChange = [fn |-> "toggleCluster", cluster |-> cluster, name |-> Undefined]
            => dom[k].checked
CoiChecked(cluster, coi) ==
    \A k \in DOMAIN dom :
        dom[k].onChange = [fn |-> "toggleIndividualCOI", cluster |-> cluster, name |-> coi]
            => dom[k].checked
\* Every checkbox of the hierarchy of unit g is checked.
HierarchyChecked(g) ==
    /\ TopChecked
    /\ \A m \in Memberships(g) : ClusterChecked(m[1]) /\ CoiChecked(m[1], m[2])

Occurrences(s, x) == Cardinality({i \in DOMAIN s : s[i] = x})

\* ---------------------------------------------------------------- properties

\* C1: the keys of the reverse mapping are exactly the units listed under some
\* COI, and the "coi" of a unit holds a COI id if and only if the unit is
\* listed under that COI in some cluster, each such id once.
C1_ReverseMappingIsCoiSet ==
    pc = "ready" =>
        /\ DOMAIN tooltipMapping = {g \in LayerUnits : Memberships(g) # {}}
        /\ \A g \in DOMAIN tooltipMapping : \A c \in CoiNames :
              /\ c \in Range(tooltipMapping[g].coi) <=> (\E m \in Memberships(g) : m[2] = c)
              /\ Occurrences(tooltipMapping[g].coi, c) <= 1

\* C2: the "cluster" of a unit is a cluster the unit belongs to, and every COI
\* of its "coi" is a COI of that cluster that lists the unit.
C2_CoisBelongToRecordedCluster ==
    pc = "ready" =>
        \A g \in DOMAIN tooltipMapping :
            /\ \E m \in Memberships(g) : m[1] = tooltipMapping[g].cluster
            /\ \A c \in Range(tooltipMapping[g].coi) :
                  Member(g, tooltipMapping[g].cluster, c)

\* C3: the callback of toggleCluster completes without error and requests the
\* checked value for every unit of every COI of its cluster.
C3_ClusterToggleMasksAllCois ==
    last.op = "toggleCluster" =>
        /\ ~last.err
        /\ \A g \in LayerUnits :
              (\E m \in Memberships(g) : m[1] = dom[last.k].onChange.cluster) =>
                  /\ \E i \in DOMAIN last.requests :
                        g \in Range(last.requests[i][1]) /\ last.requests[i][2] = last.checked
                  /\ unitVisible[g] = last.checked

\* C4: the tooltip callback returns a tooltip if and only if there is a first
\* feature, its unit is in the reverse mapping, and the top-level checkbox and
\* the cluster and COI checkboxes of the unit are all checked; the tooltip
\* lists exactly the COIs of the unit, none of them unchecked.
C4_TooltipIffHierarchyChecked ==
    last.op = "tooltip" =>
        LET shown == /\ last.features # <<>>
                     /\ last.features[1].GEOID20 \in DOMAIN tooltipMapping
                     /\ HierarchyChecked(last.features[1].GEOID20)
        IN  /\ last.shown <=> shown
            /\ last.shown =>
                  LET g == last.features[1].GEOID20
                  IN  /\ Range(last.items) = {m[2] : m \in Memberships(g)}
                      /\ \A m \in Memberships(g) : CoiChecked(m[1], m[2])

\* C5: once the top-level toggle is on, after any clicks on COI checkboxes a
\* unit of the reverse mapping is visible exactly when checkIfAllVisible holds
\* for its cluster and COIs.
C5_OpacityFollowsCheckboxes ==
    (pc = "ready" /\ TopChecked) =>
        \A g \in DOMAIN tooltipMapping :
            unitVisible[g] <=>
                checkIfAllVisible(dom, tooltipMapping[g].cluster, tooltipMapping[g].coi)

\* C6, as claimed: createReverseMapping has run exactly once, whatever events
\* followed the initialisation.
C6_BuiltOnce == pc = "ready" => builds = 1

\* C6, amended: createReverseMapping has run exactly twice, once for the
\* tooltip watcher and once for the click handler, whatever events followed
\* the initialisation.
C6_BuiltOncePerConsumer ==
    pc = "ready" =>
        /\ builds = 2
        /\ tooltipMapping = createReverseMapping(unitMap)
        /\ clickMapping = createReverseMapping(unitMap)

C6_Witness == builds = 2 /\ last.op = "click" /\ DOMAIN clickMapping # {}

C8_TopLevelSetsLayerOpacity ==
    last.op = "displayCOIs" => layerOpacity = (IF last.checked THEN Third ELSE Zero)

\* C9: every cluster and COI checkbox is enabled (pointer-events auto,
\* opacity 1) exactly when the top-level toggle is checked and disabled
\* (pointer-events none, opacity 1/2) otherwise, and the top-level toggle is
\* never restyled.
C9_EnabledIffTopChecked ==
    pc = "ready" =>
        \A k \in DOMAIN dom :
            /\ dom[k].onChange.fn = "displayCOIs" =>
                  dom[k].pointerEvents = "" /\ dom[k].opacity = Undefined
            /\ dom[k].onChange.fn \in {"toggleCluster", "toggleIndividualCOI"} =>
                  /\ TopChecked => dom[k].pointerEvents = "auto" /\ dom[k].opacity = One
                  /\ ~TopChecked => dom[k].pointerEvents = "none" /\ dom[k].opacity = Half

C9_Witness ==
    /\ last.op = "displayCOIs"
    /\ ~last.checked
    /\ \E k \in DOMAIN dom : dom[k].onChange.fn = "toggleCluster" /\ ~dom[k].checked
    /\ \E k \in DOMAIN dom : dom[k].onChange.fn = "toggleIndividualCOI"

\* C10: the click handler opens the window if and only if the clicked unit
\* belongs to a COI and every checkbox of its hierarchy is checked, and
\* completes without error otherwise.
C10_ClickOpensIffVisible ==
    (last.op = "click" /\ last.features # <<>> /\ last.features[1].source = "units") =>
        /\ ~last.err
        /\ last.opened <=>
              /\ Memberships(last.features[1].GEOID20) # {}
              /\ HierarchyChecked(last.features[1].GEOID20)

====
